---- MODULE Spec2Model ----
(***************************************************************************)
(* State-machine model of the timing utilities of the construction-company *)
(* site (src/src/App.jsx): the home-page image carousel, the viewport      *)
(* visibility tracker (useInView) and the frame-driven value animator      *)
(* (useFrameAnimation).                                                    *)
(*                                                                         *)
(* Time is the host clock in milliseconds.  Interval timers fire exactly   *)
(* when they are due (the clock cannot pass a due timer); display-refresh  *)
(* callbacks may be delayed arbitrarily by the host.                       *)
(***************************************************************************)
EXTENDS Integers, Sequences, FiniteSets

VARIABLES
    now,                \* host clock, ms
    lastOp,             \* history: name of the last operation that ran
    \* ---- HomePage carousel (App.jsx 384-424)
    homeMounted,        \* HomePage is mounted
    currentImageIndex,  \* useState(0)
    intervalRef,        \* intervalRef.current
    timers,             \* host: live interval timers, [id, due]
    lastActionAt,       \* history: time of the last mount/manual/auto action
    nextRun,            \* history: consecutive "next" actions since index 0
    manualCount,        \* history: manual actions since mount (saturates)
    firstManual,        \* history: <<op, elapsed>> of the first manual action
    autoCount,          \* history: auto-advances since mount
    \* ---- useInView (App.jsx 14-42)
    once,               \* options.once: "true", "false" or "undefined"
    attached,           \* ref.current holds an element
    trackerMounted,     \* the component using the hook is mounted
    inView,             \* useState(false)
    hasAnimated,        \* useState(false)
    observers,          \* host: observers observing the element, [id, has]
    effectObserver,     \* id of the observer the live effect created
    entryLog,           \* history: the last observations delivered
    everAttached,       \* history: ref.current has held an element
    \* ---- useFrameAnimation (App.jsx 130-162)
    animMounted,        \* the component using the hook is mounted
    endValue,           \* prop, a number >= 0 held as <<numerator, denominator>>
    duration,           \* prop, ms
    trigger,            \* prop
    value,              \* useState(0)
    startRef,           \* startRef.current
    firstFrame,         \* host: the frame requested by the live effect is pending
    chained,            \* host: pending frames requested by animate, per closure
    triggeredAt,        \* history: time trigger last became true
    runs,               \* history: times trigger became true (saturates)
    \* ---- useParallax (App.jsx 50-71)
    parMounted,         \* the component using the hook is mounted
    parAttached,        \* ref.current holds an element
    speed,              \* argument, a number held as <<numerator, denominator>>
    elemTop,            \* host: getBoundingClientRect().top of the element
    viewportHeight,     \* host: window.innerHeight
    transformY,         \* useState(0), held as <<numerator, denominator>>
    scrollListeners,    \* host: scroll listeners of the hook, [id, speed]
    \* ---- App and Header (App.jsx 213-299)
    currentPage,        \* useState('home')
    scrollY,            \* host: vertical scroll position of the window
    isMenuOpen,         \* Header: useState(false)
    lastNav,            \* history: argument of the last navigateTo call
    \* ---- ContactPage (App.jsx 628-641)
    contactMounted,     \* ContactPage is mounted
    formData,           \* the name, email and message states
    succeeded,          \* state.succeeded of useForm
    successmessage,     \* useState('')
    clearTimers,        \* host: due times of the pending setTimeout callbacks
    succeededAt,        \* history: time state.succeeded became true
    \* ---- ContactPage with fetch (unnamed/part_000 544-574)
    fetchMounted,       \* the ContactPage is mounted
    fetchData,          \* the name, email and message states
    status,             \* useState('')
    inFlight,           \* host: POST requests awaiting their outcome
    submits,            \* history: submit events handled
    posts,              \* history: POST requests sent
    lastOutcome         \* history: outcome of the last request that ended

carouselVars == <<homeMounted, currentImageIndex, intervalRef, timers,
                  lastActionAt, nextRun, manualCount, firstManual, autoCount>>

trackerVars == <<once, attached, trackerMounted, inView, hasAnimated,
                 observers, effectObserver, entryLog, everAttached>>

animatorVars == <<animMounted, endValue, duration, trigger, value, startRef,
                  firstFrame, chained, triggeredAt, runs>>

parallaxVars == <<parMounted, parAttached, speed, elemTop, viewportHeight,
                  transformY, scrollListeners>>

routerVars == <<currentPage, scrollY, isMenuOpen, lastNav>>

formVars == <<contactMounted, formData, succeeded, successmessage,
              clearTimers, succeededAt>>

fetchVars == <<fetchMounted, fetchData, status, inFlight, submits, posts,
               lastOutcome>>

pageVars == <<parallaxVars, routerVars, formVars, fetchVars>>

vars == <<now, lastOp, carouselVars, trackerVars, animatorVars, pageVars>>

-----------------------------------------------------------------------------
(* Bounds of the model *)

MaxTicks == 13          \* clock steps in a run of the carousel
MaxRun == 8             \* longest run of "next" actions that is counted

MaxLog == 3             \* observations remembered in entryLog
MaxFrameTicks == 10     \* clock steps in a run of the animator
MaxChains == 2          \* pending re-requested frames before a new run starts
MaxAppTicks == 2        \* longest clock steps in a run of the whole site
MaxSubmits == 3         \* submit events in a run of the fetch-based form
MaxContactTicks == 10   \* clock steps in a run of the Formspree form alone

CarouselSteps == {1000} \* clock granularity used with the carousel
FrameSteps == {500}     \* clock granularity used with the animator
\* clock steps used with the whole site: the carousel interval and the
\* delay of the contact form's timeout
AppSteps == {5000, 7000}
ContactSteps == {1000}

\* the time at which the clock stops after n steps taken from steps
Horizon(steps, n) == n * (CHOOSE d \in steps : \A e \in steps : e <= d)

MaxFrameTime == Horizon(FrameSteps, MaxFrameTicks)

-----------------------------------------------------------------------------
(* Program constants and pure helpers *)

images == <<"banner1.jpg", "ordnance.jpg", "banner3.jpg",
            "lgbanner.jpg", "wirebundles.jpg", "cctv.jpg">>

IntervalMs == 5000

NoHandle == 0           \* useRef(null); timer handles are positive

Unknown == MaxRun + 1   \* history value: the run is no longer counted

\* JavaScript's % : the result takes the sign of the dividend.
JsRem(a, n) == IF a >= 0 THEN a % n ELSE 0 - ((0 - a) % n)

NextIndexNoWrap(prevIndex) == prevIndex + 1

\* (prevIndex) => (prevIndex + 1) % images.length
NextIndex(prevIndex) == JsRem(prevIndex + 1, Len(images))

PrevIndexNoOffset(prevIndex) == JsRem(prevIndex - 1, Len(images))

\* (prevIndex) => (prevIndex - 1 + images.length) % images.length
PrevIndex(prevIndex) == JsRem(prevIndex - 1 + Len(images), Len(images))

TimerIds == {t.id : t \in timers}

\* The handle setInterval returns: one that is not live and differs from the
\* handle the ref still holds.
FreshHandle ==
    CHOOSE i \in 1..(Cardinality(timers) + 2) :
        /\ i \notin TimerIds
        /\ i # intervalRef
        /\ \A j \in 1..(i - 1) : j \in TimerIds \/ j = intervalRef

\* clearInterval(h)
Cleared(ts, h) == {t \in ts : t.id # h}

-----------------------------------------------------------------------------
(* Carousel *)

\* a carousel that is not part of the run
NoCarousel ==
    /\ homeMounted = FALSE
    /\ currentImageIndex = 0
    /\ intervalRef = NoHandle
    /\ timers = {}
    /\ lastActionAt = 0
    /\ nextRun = 0
    /\ manualCount = 0
    /\ firstManual = <<>>
    /\ autoCount = 0

InitCarousel ==
    /\ homeMounted = TRUE
    /\ currentImageIndex = 0
    /\ intervalRef = 1
    /\ timers = {[id |-> 1, due |-> IntervalMs]}
    /\ lastActionAt = 0
    /\ nextRun = 0
    /\ manualCount = 0
    /\ firstManual = <<>>
    /\ autoCount = 0

\* history bookkeeping shared by the two manual handlers
NoteManual(op) ==
    /\ lastActionAt' = now
    /\ manualCount' = IF manualCount >= 2 THEN 2 ELSE manualCount + 1
    /\ firstManual' = IF manualCount = 0 THEN <<op, now>> ELSE firstManual
    /\ autoCount' = autoCount

NoteNext ==
    nextRun' = IF nextRun >= MaxRun THEN Unknown ELSE nextRun + 1

\* startAutoSlide(): intervalRef.current = setInterval(..., 5000)
StartAutoSlide(live) ==
    /\ intervalRef' = FreshHandle
    /\ timers' = live \cup {[id |-> FreshHandle, due |-> now + IntervalMs]}

ResetTimerNoRestart ==
    UNCHANGED <<intervalRef, timers>>

ResetTimerNoClear ==
    StartAutoSlide(timers)

\* resetTimer(): clear the handle in the ref when there is one, then restart
ResetTimer ==
    StartAutoSlide(IF intervalRef # NoHandle
                   THEN Cleared(timers, intervalRef) ELSE timers)

HandlePrevClick ==
    /\ homeMounted
    /\ currentImageIndex' = PrevIndex(currentImageIndex)
    /\ ResetTimer
    /\ NoteManual("prev")
    /\ nextRun' = IF currentImageIndex' = 0 THEN 0 ELSE Unknown
    /\ lastOp' = "prev"
    /\ UNCHANGED <<now, homeMounted>>

HandleNextClick ==
    /\ homeMounted
    /\ currentImageIndex' = NextIndex(currentImageIndex)
    /\ ResetTimer
    /\ NoteManual("next")
    /\ NoteNext
    /\ lastOp' = "next"
    /\ UNCHANGED <<now, homeMounted>>

AutoAdvanceOneShot ==
    \E t \in timers :
        /\ t.due = now
        /\ timers' = timers \ {t}
        /\ IF homeMounted
           THEN /\ currentImageIndex' = NextIndex(currentImageIndex)
                /\ NoteNext
                /\ lastActionAt' = now
                /\ autoCount' = autoCount + 1
           ELSE UNCHANGED <<currentImageIndex, nextRun, lastActionAt, autoCount>>
        /\ lastOp' = "auto"
        /\ UNCHANGED <<now, homeMounted, intervalRef, manualCount, firstManual>>

\* The interval callback of a live timer that is due.  The state update is
\* dropped by the framework when the component is no longer mounted.
AutoAdvance ==
    \E t \in timers :
        /\ t.due = now
        /\ timers' = (timers \ {t}) \cup {[t EXCEPT !.due = now + IntervalMs]}
        /\ IF homeMounted
           THEN /\ currentImageIndex' = NextIndex(currentImageIndex)
                /\ NoteNext
                /\ lastActionAt' = now
                /\ autoCount' = autoCount + 1
           ELSE UNCHANGED <<currentImageIndex, nextRun, lastActionAt, autoCount>>
        /\ lastOp' = "auto"
        /\ UNCHANGED <<now, homeMounted, intervalRef, manualCount, firstManual>>

UnmountHomeNoClear ==
    /\ homeMounted
    /\ homeMounted' = FALSE
    /\ lastOp' = "unmount"
    /\ UNCHANGED <<now, currentImageIndex, intervalRef, timers, lastActionAt,
                   nextRun, manualCount, firstManual, autoCount>>

\* effect cleanup: () => clearInterval(intervalRef.current)
CarouselCleanup ==
    /\ homeMounted' = FALSE
    /\ timers' = Cleared(timers, intervalRef)
    /\ UNCHANGED <<currentImageIndex, intervalRef, lastActionAt,
                   nextRun, manualCount, firstManual, autoCount>>

UnmountHome ==
    /\ homeMounted
    /\ CarouselCleanup
    /\ lastOp' = "unmount"
    /\ UNCHANGED now

CarouselDestroyKeepsTimer ==
    /\ homeMounted' = FALSE
    /\ currentImageIndex' = 0
    /\ intervalRef' = NoHandle
    /\ lastActionAt' = 0
    /\ nextRun' = 0
    /\ manualCount' = 0
    /\ firstManual' = <<>>
    /\ autoCount' = 0
    /\ UNCHANGED timers

\* HomePage leaves the tree: the cleanup runs and the state and the ref of
\* the component are discarded
CarouselDestroy ==
    /\ homeMounted' = FALSE
    /\ timers' = Cleared(timers, intervalRef)
    /\ currentImageIndex' = 0
    /\ intervalRef' = NoHandle
    /\ lastActionAt' = 0
    /\ nextRun' = 0
    /\ manualCount' = 0
    /\ firstManual' = <<>>
    /\ autoCount' = 0

\* HomePage is mounted again: new state and ref, then the mount effect
CarouselMount ==
    /\ homeMounted' = TRUE
    /\ currentImageIndex' = 0
    /\ StartAutoSlide(timers)
    /\ lastActionAt' = now
    /\ nextRun' = 0
    /\ manualCount' = 0
    /\ firstManual' = <<>>
    /\ autoCount' = 0

\* The clock advances by d, never past a due interval timer.
Tick(d, horizon) ==
    /\ now + d <= horizon
    /\ \A t \in timers : now + d <= t.due
    /\ now' = now + d
    /\ lastOp' = "tick"

CarouselTick ==
    /\ \E d \in CarouselSteps : Tick(d, Horizon(CarouselSteps, MaxTicks))
    /\ UNCHANGED carouselVars

NextCarousel ==
    \/ HandlePrevClick /\ UNCHANGED <<trackerVars, animatorVars, pageVars>>
    \/ HandleNextClick /\ UNCHANGED <<trackerVars, animatorVars, pageVars>>
    \/ AutoAdvance /\ UNCHANGED <<trackerVars, animatorVars, pageVars>>
    \/ UnmountHome /\ UNCHANGED <<trackerVars, animatorVars, pageVars>>
    \/ CarouselTick /\ UNCHANGED <<trackerVars, animatorVars, pageVars>>

-----------------------------------------------------------------------------
(* Visibility tracker: useInView *)

OnceValues == {"true", "false", "undefined"}

\* a tracker that is not part of the run
NoTracker ==
    /\ once = "undefined"
    /\ attached = FALSE
    /\ trackerMounted = FALSE
    /\ inView = FALSE
    /\ hasAnimated = FALSE
    /\ observers = {}
    /\ effectObserver = 0
    /\ entryLog = <<>>
    /\ everAttached = FALSE

\* After the first render and its effect: the observer is created with the
\* hasAnimated of that render and observes the element when there is one.
InitTracker ==
    /\ once \in OnceValues
    /\ attached \in BOOLEAN
    /\ trackerMounted = TRUE
    /\ inView = FALSE
    /\ hasAnimated = FALSE
    /\ effectObserver = 1
    /\ observers = IF attached THEN {[id |-> 1, has |-> FALSE]} ELSE {}
    /\ entryLog = <<>>
    /\ everAttached = attached

Logged(entry) ==
    IF Len(entryLog) < MaxLog THEN Append(entryLog, entry)
    ELSE Append(Tail(entryLog), entry)

ObserverCallbackIgnoresOnce(isIntersecting, has) ==
    IF isIntersecting /\ ~has
    THEN inView' = TRUE /\ hasAnimated' = TRUE
    ELSE IF ~isIntersecting
         THEN inView' = FALSE /\ UNCHANGED hasAnimated
         ELSE UNCHANGED <<inView, hasAnimated>>

ObserverCallbackKeepsTriggered(isIntersecting, has) ==
    IF isIntersecting /\ ~has
    THEN inView' = TRUE /\ hasAnimated' = TRUE
    ELSE IF ~isIntersecting /\ once = "false" /\ ~has
         THEN inView' = FALSE /\ UNCHANGED hasAnimated
         ELSE UNCHANGED <<inView, hasAnimated>>

ObserverCallbackFalsyOnce(isIntersecting, has) ==
    IF isIntersecting /\ ~has
    THEN inView' = TRUE /\ hasAnimated' = TRUE
    ELSE IF ~isIntersecting /\ once # "true"
         THEN inView' = FALSE /\ UNCHANGED hasAnimated
         ELSE UNCHANGED <<inView, hasAnimated>>

\* ([entry]) => { ... } with the hasAnimated its effect closed over
ObserverCallback(isIntersecting, has) ==
    IF isIntersecting /\ ~has
    THEN inView' = TRUE /\ hasAnimated' = TRUE
    ELSE IF ~isIntersecting /\ once = "false"
         THEN inView' = FALSE /\ UNCHANGED hasAnimated
         ELSE UNCHANGED <<inView, hasAnimated>>

\* The host delivers an observation to an observer that observes the element.
Observe ==
    /\ trackerMounted
    /\ \E o \in observers, isIntersecting \in BOOLEAN :
            /\ ObserverCallback(isIntersecting, o.has)
            /\ entryLog' = Logged(isIntersecting)
    /\ lastOp' = "observe"
    /\ UNCHANGED <<now, once, attached, trackerMounted, observers,
                   effectObserver, everAttached>>

UnobservedNothing == observers

\* cleanup of the live effect: if (currentRef) observer.unobserve(currentRef),
\* with the element the effect captured when it ran
Unobserved == IF attached
              THEN {o \in observers : o.id # effectObserver}
              ELSE observers

FreshObserver ==
    CHOOSE i \in 1..(Cardinality(observers) + 2) :
        /\ i \notin {o.id : o \in observers}
        /\ i # effectObserver
        /\ \A j \in 1..(i - 1) :
                j \in {o.id : o \in observers} \/ j = effectObserver

RegisteredUnguarded(att, obs) ==
    obs \cup {[id |-> FreshObserver, has |-> hasAnimated]}

\* if (currentRef) observer.observe(currentRef), by a new observer that
\* closes over the current hasAnimated
Registered(att, obs) ==
    IF att
    THEN obs \cup {[id |-> FreshObserver, has |-> hasAnimated]}
    ELSE obs

\* The effect is cleaned up and run again in a render after which
\* ref.current holds an element iff att.
TrackerEffect(att) ==
    /\ effectObserver' = FreshObserver
    /\ observers' = Registered(att, Unobserved)
    /\ attached' = att
    /\ everAttached' = (everAttached \/ att)

\* A render (of the component or of a parent).  options is a new object on
\* every render, so the effect is cleaned up and run again.
RenderTracker ==
    /\ trackerMounted
    /\ TrackerEffect(attached)
    /\ lastOp' = "render"
    /\ UNCHANGED <<now, once, trackerMounted, inView, hasAnimated, entryLog>>

\* A render that starts or stops rendering the element the ref is given to.
RenderAttach ==
    /\ trackerMounted
    /\ TrackerEffect(~attached)
    /\ lastOp' = "attach"
    /\ UNCHANGED <<now, once, trackerMounted, inView, hasAnimated, entryLog>>

UnmountTracker ==
    /\ trackerMounted
    /\ trackerMounted' = FALSE
    /\ observers' = Unobserved
    /\ lastOp' = "unmount"
    /\ UNCHANGED <<now, once, attached, inView, hasAnimated, effectObserver,
                   entryLog, everAttached>>

\* The tracker of one view is torn down and the SectionTitle of the next
\* view mounts its own: useInView({threshold: 0.2, once: true}).
TrackerSwap ==
    /\ once' = "true"
    /\ attached' = TRUE
    /\ trackerMounted' = TRUE
    /\ inView' = FALSE
    /\ hasAnimated' = FALSE
    /\ effectObserver' = FreshObserver
    /\ observers' = Unobserved \cup {[id |-> FreshObserver, has |-> FALSE]}
    /\ entryLog' = <<>>
    /\ everAttached' = TRUE

NextTracker ==
    \/ Observe /\ UNCHANGED <<carouselVars, animatorVars, pageVars>>
    \/ RenderTracker /\ UNCHANGED <<carouselVars, animatorVars, pageVars>>
    \/ RenderAttach /\ UNCHANGED <<carouselVars, animatorVars, pageVars>>
    \/ UnmountTracker /\ UNCHANGED <<carouselVars, animatorVars, pageVars>>

-----------------------------------------------------------------------------
(* Frame animator: useFrameAnimation *)

\* endValue is a JavaScript number: integers and one fraction, 7/2
EndValues == {<<0, 1>>, <<350, 1>>, <<7, 2>>}

Durations == {1000, 2000}

\* the end props of the three counters of the home page
CounterEnds == {<<350, 1>>, <<180, 1>>, <<20, 1>>}

Closures == (EndValues \cup CounterEnds) \X Durations

NoStart == -1           \* startRef.current is null

\* !startRef.current : null and 0 are both falsy
Falsy(s) == s = NoStart \/ s = 0

\* an animator that is not part of the run
NoAnimator ==
    /\ animMounted = FALSE
    /\ endValue = <<0, 1>>
    /\ duration = 1000
    /\ trigger = FALSE
    /\ value = 0
    /\ startRef = NoStart
    /\ firstFrame = FALSE
    /\ chained = [c \in Closures |-> 0]
    /\ triggeredAt = NoStart
    /\ runs = 0

\* After the first render and its effect: with trigger false the effect
\* resets value and startRef, with trigger true it requests the first frame.
InitAnimator ==
    /\ animMounted = TRUE
    /\ endValue \in EndValues
    /\ duration \in Durations
    /\ trigger \in BOOLEAN
    /\ value = 0
    /\ startRef = NoStart
    /\ firstFrame = trigger
    /\ chained = [c \in Closures |-> 0]
    /\ triggeredAt = IF trigger THEN 0 ELSE NoStart
    /\ runs = IF trigger THEN 1 ELSE 0

AnimatedValueNoClamp(progress, end, dur) ==
    (progress * end[1]) \div (dur * end[2])

\* Math.floor(Math.min(progress / duration, 1) * endValue)
AnimatedValue(progress, end, dur) ==
    IF progress >= dur
    THEN end[1] \div end[2]
    ELSE (progress * end[1]) \div (dur * end[2])

\* the start timestamp animate works with at timestamp ts
Latched(ts) == IF Falsy(startRef) THEN ts ELSE startRef

\* ratio < 1
Unfinished(ts, dur) == ts - Latched(ts) < dur

\* animate(timestamp) of the closure <<end, dur>>, up to its request for the
\* next frame.  The state update is dropped when the component is gone.
Animate(ts, end, dur) ==
    /\ startRef' = Latched(ts)
    /\ value' = IF animMounted
                THEN AnimatedValue(ts - Latched(ts), end, dur)
                ELSE value

RequestNextNever(c, ts) == chained

\* if (ratio < 1) requestAnimationFrame(animate): the pending frames of
\* closure c after one more is requested
RequestNext(c, ts) ==
    IF Unfinished(ts, c[2]) THEN [chained EXCEPT ![c] = @ + 1] ELSE chained

\* The host runs the frame the live effect requested.
FirstFrame ==
    /\ firstFrame
    /\ Animate(now, endValue, duration)
    /\ firstFrame' = FALSE
    /\ chained' = RequestNext(<<endValue, duration>>, now)
    /\ lastOp' = "frame"
    /\ UNCHANGED <<now, animMounted, endValue, duration, trigger,
                   triggeredAt, runs>>

\* The host runs a frame that animate requested for itself.
ChainedFrame ==
    /\ \E c \in Closures :
            /\ chained[c] > 0
            /\ Animate(now, c[1], c[2])
            /\ chained' = [RequestNext(c, now) EXCEPT ![c] = @ - 1]
    /\ lastOp' = "frame"
    /\ UNCHANGED <<now, animMounted, endValue, duration, trigger, firstFrame,
                   triggeredAt, runs>>

PendingChains ==
    LET Sum[S \in SUBSET Closures] ==
            IF S = {} THEN 0
            ELSE LET c == CHOOSE x \in S : TRUE
                 IN  chained[c] + Sum[S \ {c}]
    IN  Sum[Closures]

\* The trigger dependency changes to b: the cleanup of the previous effect
\* cancels the frame that effect requested (when it was the triggered
\* branch), then the effect runs with the new value.
TriggerEffect(b) ==
    /\ trigger' = b
    /\ IF b
       THEN /\ firstFrame' = TRUE
            /\ triggeredAt' = now
            /\ runs' = IF runs >= 2 THEN 2 ELSE runs + 1
            /\ UNCHANGED <<value, startRef>>
       ELSE /\ firstFrame' = FALSE
            /\ value' = 0
            /\ startRef' = NoStart
            /\ UNCHANGED <<triggeredAt, runs>>
    /\ UNCHANGED <<animMounted, endValue, duration, chained>>

\* a render of the owner with a new value b of the trigger prop
SetTrigger(b) ==
    /\ animMounted
    /\ b # trigger
    /\ b => PendingChains < MaxChains
    /\ TriggerEffect(b)
    /\ lastOp' = "trigger"
    /\ UNCHANGED now

TriggerOn == SetTrigger(TRUE)

TriggerOff == SetTrigger(FALSE)

\* Teardown: the cleanup cancels the frame the live effect requested.
UnmountAnimator ==
    /\ animMounted
    /\ animMounted' = FALSE
    /\ firstFrame' = FALSE
    /\ lastOp' = "unmount"
    /\ UNCHANGED <<now, endValue, duration, trigger, value, startRef, chained,
                   triggeredAt, runs>>

FrameTick ==
    /\ \E d \in FrameSteps : Tick(d, MaxFrameTime)
    /\ UNCHANGED animatorVars

\* A render of the owner with a new endValue or duration: the cleanup of the
\* previous effect cancels the frame that effect requested (the untriggered
\* branch returns no cleanup), then the effect runs with the new props.
\* startRef and value are left as they are when the trigger is true.
SetProps ==
    /\ animMounted
    /\ trigger => PendingChains < MaxChains
    /\ \E e \in EndValues, d \in Durations :
            /\ <<e, d>> # <<endValue, duration>>
            /\ endValue' = e
            /\ duration' = d
    /\ IF trigger
       THEN /\ firstFrame' = TRUE
            /\ UNCHANGED <<value, startRef>>
       ELSE /\ firstFrame' = FALSE
            /\ value' = 0
            /\ startRef' = NoStart
    /\ lastOp' = "props"
    /\ UNCHANGED <<now, animMounted, trigger, chained, triggeredAt, runs>>

NextAnimatorProps ==
    \/ TriggerOn /\ UNCHANGED <<carouselVars, trackerVars, pageVars>>
    \/ TriggerOff /\ UNCHANGED <<carouselVars, trackerVars, pageVars>>
    \/ SetProps /\ UNCHANGED <<carouselVars, trackerVars, pageVars>>
    \/ FirstFrame /\ UNCHANGED <<carouselVars, trackerVars, pageVars>>
    \/ ChainedFrame /\ UNCHANGED <<carouselVars, trackerVars, pageVars>>
    \/ UnmountAnimator /\ UNCHANGED <<carouselVars, trackerVars, pageVars>>
    \/ FrameTick /\ UNCHANGED <<carouselVars, trackerVars, pageVars>>

NextAnimator ==
    \/ TriggerOn /\ UNCHANGED <<carouselVars, trackerVars, pageVars>>
    \/ TriggerOff /\ UNCHANGED <<carouselVars, trackerVars, pageVars>>
    \/ FirstFrame /\ UNCHANGED <<carouselVars, trackerVars, pageVars>>
    \/ ChainedFrame /\ UNCHANGED <<carouselVars, trackerVars, pageVars>>
    \/ UnmountAnimator /\ UNCHANGED <<carouselVars, trackerVars, pageVars>>
    \/ FrameTick /\ UNCHANGED <<carouselVars, trackerVars, pageVars>>

-----------------------------------------------------------------------------
(* AnimatedCounter: useInView({threshold: 0.5, once: true}) drives the     *)
(* trigger of useFrameAnimation(end, 2000, inView)                         *)

InitCounter ==
    /\ once = "true"
    /\ attached = TRUE
    /\ trackerMounted = TRUE
    /\ inView = FALSE
    /\ hasAnimated = FALSE
    /\ effectObserver = 1
    /\ observers = {[id |-> 1, has |-> FALSE]}
    /\ entryLog = <<>>
    /\ everAttached = TRUE
    /\ animMounted = TRUE
    /\ endValue \in CounterEnds
    /\ duration = 2000
    /\ trigger = FALSE
    /\ value = 0
    /\ startRef = NoStart
    /\ firstFrame = FALSE
    /\ chained = [c \in Closures |-> 0]
    /\ triggeredAt = NoStart
    /\ runs = 0

\* an observation: the state updates wait for the next render
CounterObserve == Observe /\ UNCHANGED animatorVars

\* a render: both hooks run their effects, the animator's only when inView,
\* its trigger, has changed
CounterRender ==
    /\ RenderTracker
    /\ IF inView # trigger
       THEN TriggerEffect(inView)
       ELSE UNCHANGED animatorVars

CounterUnmount == UnmountTracker /\ UnmountAnimator

NextCounter ==
    \/ CounterObserve /\ UNCHANGED <<carouselVars, pageVars>>
    \/ CounterRender /\ UNCHANGED <<carouselVars, pageVars>>
    \/ CounterUnmount /\ UNCHANGED <<carouselVars, pageVars>>
    \/ FirstFrame /\ UNCHANGED <<carouselVars, trackerVars, pageVars>>
    \/ ChainedFrame /\ UNCHANGED <<carouselVars, trackerVars, pageVars>>
    \/ FrameTick /\ UNCHANGED <<carouselVars, trackerVars, pageVars>>

-----------------------------------------------------------------------------
(* Parallax: useParallax *)

\* speed: the -0.2 of HomePage and the default 0.5
Speeds == {<<0 - 1, 5>>, <<1, 2>>}

Tops == {0 - 300, 0, 450}       \* element tops, px

Heights == {600, 900}           \* viewport heights, px

Zero == <<0, 1>>

NoFields == [name |-> "", email |-> "", message |-> ""]

\* a parallax instance that is not part of the run
NoParallax ==
    /\ parMounted = FALSE
    /\ parAttached = FALSE
    /\ speed = <<1, 2>>
    /\ elemTop = 0
    /\ viewportHeight = 600
    /\ transformY = Zero
    /\ scrollListeners = <<>>

\* an App that is not part of the run
NoRouter ==
    /\ currentPage = "home"
    /\ scrollY = 0
    /\ isMenuOpen = FALSE
    /\ lastNav = "home"

\* a contact form that is not part of the run
NoForm ==
    /\ contactMounted = FALSE
    /\ formData = NoFields
    /\ succeeded = FALSE
    /\ successmessage = ""
    /\ clearTimers = {}
    /\ succeededAt = 0

\* a fetch-based contact form that is not part of the run
NoFetch ==
    /\ fetchMounted = FALSE
    /\ fetchData = NoFields
    /\ status = ""
    /\ inFlight = 0
    /\ submits = 0
    /\ posts = 0
    /\ lastOutcome = "none"

NoPage == NoParallax /\ NoRouter /\ NoForm /\ NoFetch

OffsetUnscaled(top, vh, sp) == <<top * sp[1], vh * sp[2]>>

\* (top / viewportHeight) * speed * 100, as a fraction
Offset(top, vh, sp) == <<top * sp[1] * 100, vh * sp[2]>>

\* handleScroll of the listener l after the listeners before it:
\* if (ref.current) setTransformY(...); a set state of a component that is
\* gone is dropped
HandleScroll(l, top, before) ==
    IF parAttached /\ parMounted
    THEN Offset(top, viewportHeight, l.speed)
    ELSE before

\* the offset after the scroll listeners ls ran in order
RECURSIVE Notified(_, _, _)
Notified(ls, top, before) ==
    IF ls = <<>> THEN before
    ELSE Notified(Tail(ls), top, HandleScroll(Head(ls), top, before))

\* After the first render and its effect: the listener is added and
\* handleScroll has been called once.
InitParallax ==
    /\ parMounted = TRUE
    /\ parAttached \in BOOLEAN
    /\ speed \in Speeds
    /\ elemTop \in Tops
    /\ viewportHeight \in Heights
    /\ scrollListeners = <<[id |-> 1, speed |-> speed]>>
    /\ transformY = IF parAttached
                    THEN Offset(elemTop, viewportHeight, speed)
                    ELSE Zero

\* The page scrolls: the element is at top t and the scroll notification is
\* delivered to the registered listeners.
Scroll(t) ==
    /\ elemTop' = t
    /\ transformY' = Notified(scrollListeners, t, transformY)
    /\ UNCHANGED <<parMounted, parAttached, speed, viewportHeight,
                   scrollListeners>>

ParallaxScroll ==
    /\ \E t \in Tops : Scroll(t)
    /\ lastOp' = "scroll"
    /\ UNCHANGED now

\* The window is resized: no scroll notification.
Resize ==
    /\ \E h \in Heights : h # viewportHeight /\ viewportHeight' = h
    /\ lastOp' = "resize"
    /\ UNCHANGED <<now, parMounted, parAttached, speed, elemTop, transformY,
                   scrollListeners>>

KeptListeners(ls) == ls

\* cleanup: window.removeEventListener('scroll', handleScroll), the listener
\* the live effect added; listeners are numbered in order of registration
\* and the live effect's is the last
RemovedListener(ls) == SelectSeq(ls, LAMBDA l : l.id # Len(ls))

\* A render with another speed: the cleanup runs, then the effect adds a
\* listener that closes over sp and calls it once.
SetSpeed ==
    /\ parMounted
    /\ \E sp \in Speeds :
            /\ sp # speed
            /\ speed' = sp
            /\ scrollListeners' =
                    Append(RemovedListener(scrollListeners),
                           [id |-> Len(RemovedListener(scrollListeners)) + 1,
                            speed |-> sp])
            /\ transformY' = IF parAttached
                             THEN Offset(elemTop, viewportHeight, sp)
                             ELSE transformY
    /\ lastOp' = "speed"
    /\ UNCHANGED <<now, parMounted, parAttached, elemTop, viewportHeight>>

\* A render that starts or stops rendering the element the ref is given to;
\* speed is unchanged, so the effect does not run.
ParallaxAttach ==
    /\ parMounted
    /\ parAttached' = ~parAttached
    /\ lastOp' = "attach"
    /\ UNCHANGED <<now, parMounted, speed, elemTop, viewportHeight,
                   transformY, scrollListeners>>

\* teardown of the component: the cleanup of the live effect runs
ParallaxTeardown ==
    /\ parMounted' = FALSE
    /\ scrollListeners' = RemovedListener(scrollListeners)
    /\ UNCHANGED <<parAttached, speed, elemTop, viewportHeight, transformY>>

UnmountParallax ==
    /\ parMounted
    /\ ParallaxTeardown
    /\ lastOp' = "unmount"
    /\ UNCHANGED now

NextParallax ==
    \/ ParallaxScroll /\ UNCHANGED <<carouselVars, trackerVars, animatorVars,
                                     routerVars, formVars, fetchVars>>
    \/ Resize /\ UNCHANGED <<carouselVars, trackerVars, animatorVars,
                             routerVars, formVars, fetchVars>>
    \/ SetSpeed /\ UNCHANGED <<carouselVars, trackerVars, animatorVars,
                               routerVars, formVars, fetchVars>>
    \/ ParallaxAttach /\ UNCHANGED <<carouselVars, trackerVars, animatorVars,
                                     routerVars, formVars, fetchVars>>
    \/ UnmountParallax /\ UNCHANGED <<carouselVars, trackerVars, animatorVars,
                                      routerVars, formVars, fetchVars>>

-----------------------------------------------------------------------------
(* ContactPage: the Formspree form *)

Sent == "Your Message has been sent! We will get back to you shortly."

ClearAfterMs == 7000

FieldValues == {"", "a"}

\* the effect of [state.succeeded]: the fields are emptied, the message is
\* set and a timeout is started that empties the message
SucceededEffect ==
    /\ formData' = NoFields
    /\ successmessage' = Sent
    /\ clearTimers' = clearTimers \cup
                        {[due |-> now + ClearAfterMs, live |-> TRUE]}

\* ContactPage mounts: new state, then the effect runs for the first time
FormMount ==
    /\ contactMounted' = TRUE
    /\ succeeded' = FALSE
    /\ succeededAt' = 0
    /\ SucceededEffect

\* ContactPage leaves the tree and its state is discarded: the effect has no
\* cleanup, its timeouts stay pending and their callbacks belong to a
\* component that is gone
FormDestroy ==
    /\ contactMounted' = FALSE
    /\ clearTimers' = {[t EXCEPT !.live = FALSE] : t \in clearTimers}
    /\ formData' = NoFields
    /\ succeeded' = FALSE
    /\ successmessage' = ""
    /\ succeededAt' = 0

\* onChange of one of the three inputs
FormChange ==
    /\ contactMounted
    /\ \E f \in DOMAIN formData, v \in FieldValues :
            /\ v # formData[f]
            /\ formData' = [formData EXCEPT ![f] = v]
    /\ lastOp' = "change"
    /\ UNCHANGED <<now, contactMounted, succeeded, successmessage,
                   clearTimers, succeededAt>>

\* A submission of the filled form (all inputs are required) succeeds:
\* state.succeeded becomes true and the effect runs.
FormSucceeded ==
    /\ contactMounted
    /\ ~succeeded
    /\ \A f \in DOMAIN formData : formData[f] # ""
    /\ succeeded' = TRUE
    /\ succeededAt' = now
    /\ SucceededEffect
    /\ lastOp' = "succeeded"
    /\ UNCHANGED <<now, contactMounted>>

\* a timeout callback that is due: () => setSuccessMessage('')
ClearMessage ==
    /\ \E t \in clearTimers :
            /\ t.due = now
            /\ clearTimers' = clearTimers \ {t}
            /\ successmessage' = IF t.live THEN "" ELSE successmessage
    /\ lastOp' = "clear"
    /\ UNCHANGED <<now, contactMounted, formData, succeeded, succeededAt>>

\* ContactPage at time 0, after the effect has run for the first time
InitContact ==
    /\ contactMounted = TRUE
    /\ formData = NoFields
    /\ succeeded = FALSE
    /\ successmessage = Sent
    /\ clearTimers = {[due |-> ClearAfterMs, live |-> TRUE]}
    /\ succeededAt = 0

UnmountContact ==
    /\ contactMounted
    /\ FormDestroy
    /\ lastOp' = "unmount"
    /\ UNCHANGED now

ContactTick ==
    /\ \E d \in ContactSteps :
            /\ Tick(d, Horizon(ContactSteps, MaxContactTicks))
            /\ \A t \in clearTimers : now + d <= t.due
    /\ UNCHANGED formVars

NextContact ==
    \/ FormChange /\ UNCHANGED <<carouselVars, trackerVars, animatorVars,
                                 parallaxVars, routerVars, fetchVars>>
    \/ FormSucceeded /\ UNCHANGED <<carouselVars, trackerVars, animatorVars,
                                    parallaxVars, routerVars, fetchVars>>
    \/ ClearMessage /\ UNCHANGED <<carouselVars, trackerVars, animatorVars,
                                   parallaxVars, routerVars, fetchVars>>
    \/ UnmountContact /\ UNCHANGED <<carouselVars, trackerVars, animatorVars,
                                     parallaxVars, routerVars, fetchVars>>
    \/ ContactTick /\ UNCHANGED <<carouselVars, trackerVars, animatorVars,
                                  parallaxVars, routerVars, fetchVars>>

-----------------------------------------------------------------------------
(* ContactPage of unnamed/part_000: the form posted with fetch *)

Sending == "Sending..."

SuccessStatus == "Message sent successfully! We will get back to you shortly."

FailedStatus == "Failed to send message. Please try again later."

ErrorStatus == "An error occurred. Please check your network connection."

\* how a request can end: response.ok, a response that is not ok, or fetch
\* throws
Outcomes == {"ok", "rejected", "threw"}

\* the status the rest of handleSubmit sets for an outcome
StatusFor(o) ==
    CASE o = "ok" -> SuccessStatus
      [] o = "rejected" -> FailedStatus
      [] o = "threw" -> ErrorStatus

ResentOnFailure(o) == IF o = "ok" THEN 0 ELSE 1

\* the requests handleSubmit sends after an outcome: none
Resent(o) == 0

InitFetch ==
    /\ fetchMounted = TRUE
    /\ fetchData = NoFields
    /\ status = ""
    /\ inFlight = 0
    /\ submits = 0
    /\ posts = 0
    /\ lastOutcome = "none"

\* onChange of one of the three inputs
FetchChange ==
    /\ fetchMounted
    /\ \E f \in DOMAIN fetchData, v \in FieldValues :
            /\ v # fetchData[f]
            /\ fetchData' = [fetchData EXCEPT ![f] = v]
    /\ lastOp' = "change"
    /\ UNCHANGED <<now, fetchMounted, status, inFlight, submits, posts,
                   lastOutcome>>

\* handleSubmit up to its await: the form is filled (all inputs are
\* required), the status is set and one POST is sent.  The button stays
\* enabled while a request is in flight.
FetchSubmit ==
    /\ fetchMounted
    /\ submits < MaxSubmits
    /\ \A f \in DOMAIN fetchData : fetchData[f] # ""
    /\ status' = Sending
    /\ inFlight' = inFlight + 1
    /\ posts' = posts + 1
    /\ submits' = submits + 1
    /\ lastOp' = "submit"
    /\ UNCHANGED <<now, fetchMounted, fetchData, lastOutcome>>

\* handleSubmit after its await, for a request that ends with outcome o; the
\* state updates are dropped when the component is gone
FetchOutcome ==
    /\ inFlight > 0
    /\ \E o \in Outcomes :
            /\ lastOutcome' = o
            /\ inFlight' = inFlight - 1 + Resent(o)
            /\ posts' = posts + Resent(o)
            /\ status' = IF fetchMounted THEN StatusFor(o) ELSE status
            /\ fetchData' = IF fetchMounted /\ o = "ok"
                            THEN NoFields ELSE fetchData
    /\ lastOp' = "outcome"
    /\ UNCHANGED <<now, fetchMounted, submits>>

UnmountFetch ==
    /\ fetchMounted
    /\ fetchMounted' = FALSE
    /\ lastOp' = "unmount"
    /\ UNCHANGED <<now, fetchData, status, inFlight, submits, posts,
                   lastOutcome>>

NextFetch ==
    \/ FetchChange /\ UNCHANGED <<carouselVars, trackerVars, animatorVars,
                                  parallaxVars, routerVars, formVars>>
    \/ FetchSubmit /\ UNCHANGED <<carouselVars, trackerVars, animatorVars,
                                  parallaxVars, routerVars, formVars>>
    \/ FetchOutcome /\ UNCHANGED <<carouselVars, trackerVars, animatorVars,
                                   parallaxVars, routerVars, formVars>>
    \/ UnmountFetch /\ UNCHANGED <<carouselVars, trackerVars, animatorVars,
                                   parallaxVars, routerVars, formVars>>

-----------------------------------------------------------------------------
(* App: page selection, Header and Footer navigation *)

Pages == {"home", "about", "services", "projects", "contact"}

\* identifiers no button of the site passes to navigateTo
UnknownPages == {"careers", "Home"}

\* Header: the logo, navLinks and the quote button
HeaderTargets == {"home", "about", "services", "projects", "contact"}

FooterTargetsTypo == {"about", "service", "projects", "contact"}

\* Footer: the quick links and the quote button
FooterTargets == {"about", "services", "projects", "contact"}

\* HomePage: the quote button and "View All Services"
HomeTargets == {"contact", "services"}

ScrollYs == {0, 300}            \* scroll positions of the window, px

\* the hero section starts at the top of the document
HeroTop(y) == 0 - y

RenderPageNoDefault(page) ==
    IF page \in Pages THEN page ELSE "none"

\* renderPage(): the switch over currentPage, with its default branch
RenderPage(page) ==
    CASE page = "home" -> "home"
      [] page = "about" -> "about"
      [] page = "services" -> "services"
      [] page = "projects" -> "projects"
      [] page = "contact" -> "contact"
      [] OTHER -> "home"

SetCurrentPageValidated(page) == IF page \in Pages THEN page ELSE "home"

\* setCurrentPage(page): the value stored
SetCurrentPage(page) == page

ScrollKept(y) == y

\* window.scrollTo(0, 0): the scroll position afterwards
ScrollTo(y) == 0

\* HomePage leaves the tree: the cleanup runs and the state and the ref of
\* the hook are discarded
ParallaxDestroy ==
    /\ parMounted' = FALSE
    /\ parAttached' = FALSE
    /\ scrollListeners' = RemovedListener(scrollListeners)
    /\ transformY' = Zero
    /\ elemTop' = 0
    /\ UNCHANGED <<speed, viewportHeight>>

\* HomePage mounts its parallax: useParallax(-0.2), the ref is attached
ParallaxMount ==
    /\ parMounted' = TRUE
    /\ parAttached' = TRUE
    /\ speed' = <<0 - 1, 5>>
    /\ elemTop' = HeroTop(scrollY')
    /\ scrollListeners' =
            Append(scrollListeners,
                   [id |-> Len(scrollListeners) + 1, speed |-> <<0 - 1, 5>>])
    /\ transformY' = Offset(HeroTop(scrollY'), viewportHeight, <<0 - 1, 5>>)
    /\ UNCHANGED viewportHeight

\* navigateTo(page) and the render that follows: when the rendered view
\* changes, the old view's components are torn down and the new view's are
\* mounted; otherwise the view stays and a changed scroll position is
\* notified to its listeners.
NavigateTo(page) ==
    LET old == RenderPage(currentPage)
        new == RenderPage(SetCurrentPage(page))
    IN  /\ currentPage' = SetCurrentPage(page)
        /\ scrollY' = ScrollTo(scrollY)
        /\ lastNav' = page
        /\ IF new = old
           THEN /\ UNCHANGED <<carouselVars, trackerVars, formVars>>
                /\ IF parMounted /\ scrollY' # scrollY
                   THEN Scroll(HeroTop(scrollY'))
                   ELSE UNCHANGED parallaxVars
           ELSE /\ TrackerSwap
                /\ IF old = "home"
                   THEN CarouselDestroy /\ ParallaxDestroy
                   ELSE IF new = "home"
                   THEN CarouselMount /\ ParallaxMount
                   ELSE UNCHANGED <<carouselVars, parallaxVars>>
                /\ IF old = "contact"
                   THEN FormDestroy
                   ELSE IF new = "contact"
                   THEN FormMount
                   ELSE UNCHANGED formVars

\* Header.handleNavClick(page)
HandleNavClick ==
    /\ \E page \in HeaderTargets : NavigateTo(page)
    /\ isMenuOpen' = FALSE
    /\ lastOp' = "navigate"
    /\ UNCHANGED <<now, animatorVars, fetchVars>>

\* a Footer button or, on the home view, a HomePage button
ButtonNav ==
    /\ \E page \in FooterTargets \cup
                    (IF homeMounted THEN HomeTargets ELSE {}) :
            NavigateTo(page)
    /\ lastOp' = "navigate"
    /\ UNCHANGED <<now, isMenuOpen, animatorVars, fetchVars>>

\* navigateTo called with an identifier that is not a page
NavigateUnknown ==
    /\ \E page \in UnknownPages : NavigateTo(page)
    /\ lastOp' = "navigate"
    /\ UNCHANGED <<now, isMenuOpen, animatorVars, fetchVars>>

ToggleMenuToHome ==
    /\ isMenuOpen' = ~isMenuOpen
    /\ currentPage' = "home"
    /\ lastOp' = "menu"
    /\ UNCHANGED <<now, scrollY, lastNav>>

\* the menu button: setIsMenuOpen(!isMenuOpen)
ToggleMenu ==
    /\ isMenuOpen' = ~isMenuOpen
    /\ lastOp' = "menu"
    /\ UNCHANGED <<now, currentPage, scrollY, lastNav>>

\* the user scrolls the window
AppScroll ==
    /\ \E y \in ScrollYs :
            /\ y # scrollY
            /\ scrollY' = y
            /\ IF parMounted
               THEN Scroll(HeroTop(y))
               ELSE UNCHANGED parallaxVars
    /\ lastOp' = "scroll"
    /\ UNCHANGED <<now, currentPage, isMenuOpen, lastNav>>

\* An observation delivered to the view's tracker; the site keeps no log of
\* the observations.
AppObserve ==
    /\ trackerMounted
    /\ \E o \in observers, isIntersecting \in BOOLEAN :
            ObserverCallback(isIntersecting, o.has)
    /\ lastOp' = "observe"
    /\ UNCHANGED <<now, once, attached, trackerMounted, observers,
                   effectObserver, entryLog, everAttached>>

\* The clock advances, never past a due interval or timeout.
AppTick ==
    /\ \E d \in AppSteps :
            /\ Tick(d, Horizon(AppSteps, MaxAppTicks))
            /\ \A t \in clearTimers : now + d <= t.due

\* the home view at time 0: carousel, parallax and the first SectionTitle
InitApp ==
    /\ InitCarousel
    /\ once = "true"
    /\ attached = TRUE
    /\ trackerMounted = TRUE
    /\ inView = FALSE
    /\ hasAnimated = FALSE
    /\ effectObserver = 1
    /\ observers = {[id |-> 1, has |-> FALSE]}
    /\ entryLog = <<>>
    /\ everAttached = TRUE
    /\ NoAnimator
    /\ parMounted = TRUE
    /\ parAttached = TRUE
    /\ speed = <<0 - 1, 5>>
    /\ elemTop = HeroTop(0)
    /\ viewportHeight = 600
    /\ transformY = Offset(HeroTop(0), 600, <<0 - 1, 5>>)
    /\ scrollListeners = <<[id |-> 1, speed |-> <<0 - 1, 5>>]>>
    /\ NoRouter
    /\ NoForm
    /\ NoFetch

NextApp ==
    \/ HandleNavClick
    \/ ButtonNav
    \/ ToggleMenu /\ UNCHANGED <<carouselVars, trackerVars, animatorVars,
                                 parallaxVars, formVars, fetchVars>>
    \/ AppScroll /\ UNCHANGED <<carouselVars, trackerVars, animatorVars,
                                formVars, fetchVars>>
    \/ HandlePrevClick /\ UNCHANGED <<trackerVars, animatorVars, pageVars>>
    \/ HandleNextClick /\ UNCHANGED <<trackerVars, animatorVars, pageVars>>
    \/ AutoAdvance /\ UNCHANGED <<trackerVars, animatorVars, pageVars>>
    \/ AppObserve /\ UNCHANGED <<carouselVars, animatorVars, pageVars>>
    \/ RenderTracker /\ UNCHANGED <<carouselVars, animatorVars, pageVars>>
    \/ FormChange /\ UNCHANGED <<carouselVars, trackerVars, animatorVars,
                                 parallaxVars, routerVars, fetchVars>>
    \/ FormSucceeded /\ UNCHANGED <<carouselVars, trackerVars, animatorVars,
                                    parallaxVars, routerVars, fetchVars>>
    \/ ClearMessage /\ UNCHANGED <<carouselVars, trackerVars, animatorVars,
                                   parallaxVars, routerVars, fetchVars>>
    \/ AppTick /\ UNCHANGED <<carouselVars, trackerVars, animatorVars,
                              pageVars>>

\* navigation with any identifier, scrolling, the menu and the timers
NextRouter ==
    \/ HandleNavClick
    \/ ButtonNav
    \/ NavigateUnknown
    \/ ToggleMenu /\ UNCHANGED <<carouselVars, trackerVars, animatorVars,
                                 parallaxVars, formVars, fetchVars>>
    \/ AppScroll /\ UNCHANGED <<carouselVars, trackerVars, animatorVars,
                                formVars, fetchVars>>
    \/ AutoAdvance /\ UNCHANGED <<trackerVars, animatorVars, pageVars>>
    \/ ClearMessage /\ UNCHANGED <<carouselVars, trackerVars, animatorVars,
                                   parallaxVars, routerVars, fetchVars>>
    \/ AppTick /\ UNCHANGED <<carouselVars, trackerVars, animatorVars,
                              pageVars>>

-----------------------------------------------------------------------------
(* Specifications *)

Init ==
    /\ now = 0
    /\ lastOp = "init"
    /\ InitCarousel
    /\ NoTracker
    /\ NoAnimator
    /\ NoPage

SpecCarousel == Init /\ [][NextCarousel]_vars

TrackerInit ==
    /\ now = 0
    /\ lastOp = "init"
    /\ NoCarousel
    /\ InitTracker
    /\ NoAnimator
    /\ NoPage

SpecTracker == TrackerInit /\ [][NextTracker]_vars

AnimatorInit ==
    /\ now = 0
    /\ lastOp = "init"
    /\ NoCarousel
    /\ NoTracker
    /\ InitAnimator
    /\ NoPage

SpecAnimator == AnimatorInit /\ [][NextAnimator]_vars

CounterInit ==
    /\ now = 0
    /\ lastOp = "init"
    /\ NoCarousel
    /\ InitCounter
    /\ NoPage

SpecCounter == CounterInit /\ [][NextCounter]_vars

ParallaxInit ==
    /\ now = 0
    /\ lastOp = "init"
    /\ NoCarousel
    /\ NoTracker
    /\ NoAnimator
    /\ InitParallax
    /\ NoRouter
    /\ NoForm
    /\ NoFetch

SpecParallax == ParallaxInit /\ [][NextParallax]_vars

AppInit ==
    /\ now = 0
    /\ lastOp = "init"
    /\ InitApp

\* the site as its buttons drive it
SpecApp == AppInit /\ [][NextApp]_vars

\* the site with navigateTo also called with identifiers that are not pages
SpecRouter == AppInit /\ [][NextRouter]_vars

FetchInit ==
    /\ now = 0
    /\ lastOp = "init"
    /\ NoCarousel
    /\ NoTracker
    /\ NoAnimator
    /\ NoParallax
    /\ NoRouter
    /\ NoForm
    /\ InitFetch

SpecFetch == FetchInit /\ [][NextFetch]_vars

ContactInit ==
    /\ now = 0
    /\ lastOp = "init"
    /\ NoCarousel
    /\ NoTracker
    /\ NoAnimator
    /\ NoParallax
    /\ NoRouter
    /\ InitContact
    /\ NoFetch

SpecContact == ContactInit /\ [][NextContact]_vars

\* the animator of an owner that also changes endValue and duration
SpecAnimatorProps == AnimatorInit /\ [][NextAnimatorProps]_vars

\* The host keeps delivering requested frames and its clock keeps running.
SpecAnimatorFair ==
    /\ AnimatorInit
    /\ [][NextAnimator]_vars
    /\ WF_vars(FirstFrame /\ UNCHANGED <<carouselVars, trackerVars, pageVars>>)
    /\ WF_vars(ChainedFrame /\ UNCHANGED <<carouselVars, trackerVars, pageVars>>)
    /\ WF_vars(FrameTick /\ UNCHANGED <<carouselVars, trackerVars, pageVars>>)

-----------------------------------------------------------------------------
(* Carousel properties *)

N == Len(images)

\* C1: in every reachable state of the carousel the active index is an
\* integer with 0 <= activeIndex < itemCount.
C1_IndexInBounds ==
    /\ currentImageIndex \in Int
    /\ 0 <= currentImageIndex
    /\ currentImageIndex < N

\* a "previous" from index 0 has wrapped to the last item
C1_Witness ==
    /\ lastOp = "prev"
    /\ manualCount = 1
    /\ currentImageIndex = N - 1

\* C2: while mounted the only live timer is the one in the ref and it is due
\* exactly one interval after the most recent action of any kind (mount,
\* manual next/previous, auto-advance); an auto-advance fires only at that
\* instant, so never inside (t, t + 5000) after an action at t.
C2_TimerReset ==
    /\ [](homeMounted =>
            timers = {[id |-> intervalRef, due |-> lastActionAt + IntervalMs]})
    /\ [][autoCount' # autoCount => now = lastActionAt + IntervalMs]_vars

\* an auto-advance has fired one interval after a manual action at 1000 ms
C2_Witness ==
    /\ lastOp = "auto"
    /\ manualCount = 1
    /\ firstManual[2] = 1000
    /\ now = 1000 + IntervalMs

\* C3: each "next" (manual or automatic) maps the index to (index + 1) mod N,
\* each "previous" to (index - 1 + N) mod N; after k consecutive "next"
\* actions from index 0 the index is k mod N.
C3_NavigationArithmetic ==
    /\ [][/\ lastOp' \in {"next", "auto"} =>
                currentImageIndex' = (currentImageIndex + 1) % N
          /\ lastOp' = "prev" =>
                currentImageIndex' = (currentImageIndex - 1 + N) % N]_vars
    /\ [](nextRun # Unknown => currentImageIndex = nextRun % N)

\* seven consecutive "next" actions from index 0 have wrapped to index 1
C3_Witness ==
    /\ nextRun = N + 1
    /\ currentImageIndex = 1
    /\ manualCount >= 1

\* C4: (a) mounted at 0 with no manual action, the index is 2 at 12000 ms;
\* (b) when the only manual action is a "previous" at 1000 ms, the index is 5
\* from then on and no auto-advance occurs before 6000 ms.
C4_EndToEnd ==
    /\ (homeMounted /\ manualCount = 0 /\ now = 12000)
            => currentImageIndex = 2
    /\ (manualCount = 1 /\ firstManual = <<"prev", 1000>> /\ now < 6000)
            => (currentImageIndex = 5 /\ autoCount = 0)

\* scenario (b) has run up to its first auto-advance, at 6000 ms
C4_Witness ==
    /\ manualCount = 1
    /\ firstManual = <<"prev", 1000>>
    /\ now = 6000
    /\ autoCount = 1
    /\ currentImageIndex = 0

\* scenario (a) has run to 12000 ms
C4_WitnessA ==
    /\ homeMounted
    /\ manualCount = 0
    /\ now = 12000
    /\ autoCount = 2

\* C5: after teardown no interval timer of the carousel is live, so no
\* auto-advance callback runs any more.
C5_Teardown ==
    /\ [](~homeMounted => timers = {})
    /\ [][~homeMounted => lastOp' # "auto"]_vars

\* torn down after a manual action had replaced the mount-time timer
C5_Witness ==
    /\ ~homeMounted
    /\ manualCount >= 1
    /\ lastOp = "unmount"

\* C27: on the site, through mounts, clicks, ticks and unmounts of the home
\* page, at most one interval timer of the carousel is live; while the home
\* page is mounted it is the one whose handle intervalRef holds, and without
\* the home page there is none.
C27_SingleTimer ==
    /\ Cardinality(timers) <= 1
    /\ homeMounted => TimerIds = {intervalRef}
    /\ ~homeMounted => timers = {}

\* after the clock has advanced, a click on next has replaced the timer
C27_Witness ==
    /\ homeMounted
    /\ lastOp = "next"
    /\ now >= IntervalMs
    /\ manualCount >= 1
    /\ timers = {[id |-> intervalRef, due |-> now + IntervalMs]}

\* C30: while a view other than home is active there is no carousel, no timer
\* and no auto-advance; leaving home discards index and handle; coming back
\* to home starts at index 0 with one timer due 5000 ms later; a navigation
\* that stays on home leaves index, handle and timer as they are.
C30_CarouselLifetime ==
    /\ [](RenderPage(currentPage) # "home" =>
            (~homeMounted /\ timers = {}))
    /\ [][RenderPage(currentPage) # "home" => lastOp' # "auto"]_vars
    /\ [][(homeMounted /\ ~homeMounted') =>
            (currentImageIndex' = 0 /\ intervalRef' = NoHandle)]_vars
    /\ [][(~homeMounted /\ homeMounted') =>
            /\ currentImageIndex' = 0
            /\ timers' = {[id |-> intervalRef', due |-> now' + IntervalMs]}]_vars
    /\ [][(homeMounted /\ lastOp' = "navigate"
                /\ RenderPage(currentPage') = "home") =>
            UNCHANGED <<currentImageIndex, intervalRef, timers>>]_vars

\* the home page has just been mounted again, later than time 0
C30_Witness ==
    /\ homeMounted
    /\ currentPage = "home"
    /\ lastOp = "navigate"
    /\ now > 0
    /\ lastActionAt = now
    /\ manualCount = 0
    /\ autoCount = 0
    /\ currentImageIndex = 0

-----------------------------------------------------------------------------
(* Visibility tracker properties *)

LastEntry == entryLog[Len(entryLog)]

\* C6: for a tracker with once = true, once the in-view signal is true it is
\* never false again, whatever is observed and however often the observer is
\* registered again.
C6_Latch == [][(once = "true" /\ inView) => inView']_vars

\* a latched tracker has been told that the element left the viewport, by an
\* observer registered after the latch
C6_Witness ==
    /\ once = "true"
    /\ inView
    /\ lastOp = "observe"
    /\ Len(entryLog) >= 2
    /\ ~LastEntry
    /\ \A o \in observers : o.has

\* C7: for a tracker with once = false, in-view equals the outcome of the
\* most recent observation.
C7_LatestObservation ==
    (once = "false" /\ entryLog # <<>>) => (inView = LastEntry)

\* C23: for a tracker with once = false, after every observation that reports
\* the element as not intersecting the in-view signal is false, whatever it
\* was before and whether or not the tracker has triggered.
C23_DropsOut ==
    (once = "false" /\ lastOp = "observe" /\ ~LastEntry) => ~inView

\* a tracker with once = false that has triggered, and whose observer was
\* registered after that, was in view and has been told that the element left
C23_Witness ==
    /\ once = "false"
    /\ lastOp = "observe"
    /\ hasAnimated
    /\ \A o \in observers : o.has
    /\ Len(entryLog) >= 2
    /\ entryLog[Len(entryLog) - 1]
    /\ ~LastEntry
    /\ ~inView

\* C26: a tracker created without the once option latches: once the in-view
\* signal is true no observation and no render makes it false.
C26_OmittedLatches == [][(once = "undefined" /\ inView) => inView']_vars

\* a tracker without the once option is in view and has just been told that
\* the element left the viewport
C26_Witness ==
    /\ once = "undefined"
    /\ inView
    /\ lastOp = "observe"
    /\ entryLog # <<>>
    /\ ~LastEntry

\* C13: at most one observation is registered at any time, and it is the one
\* the live effect made; a new registration is made only after the previous
\* one was released; none is registered while no element is attached or
\* after teardown.
C13_NoLeakedObservers ==
    /\ [](Cardinality(observers) <= 1)
    /\ []((trackerMounted /\ attached)
            => {o.id : o \in observers} = {effectObserver})
    /\ []((~trackerMounted \/ ~attached) => observers = {})
    /\ [][observers' \ observers # {} => observers \cap observers' = {}]_vars

\* the element was detached after it had been observed in view, and its
\* observation was released
C13_Witness ==
    /\ trackerMounted
    /\ lastOp = "attach"
    /\ ~attached
    /\ inView
    /\ observers = {}

\* C14: a tracker whose ref has never held an element has no observation
\* registered (observe is never called without an element) and its in-view
\* signal is false.
C14_Unattached ==
    ~everAttached => (observers = {} /\ ~inView /\ ~hasAnimated)

\* the effect of an unattached tracker like HomePage's has run again
C14_Witness ==
    /\ ~everAttached
    /\ once = "undefined"
    /\ trackerMounted
    /\ lastOp = "render"
    /\ effectObserver >= 2

-----------------------------------------------------------------------------
(* Parallax properties *)

\* a handleScroll call has just run: at initialisation or on a scroll
\* notification
Notice == parMounted /\ lastOp \in {"init", "scroll", "speed"}

\* C15: while the element is attached, right after initialisation and after
\* every scroll notification the offset equals
\* (elementTop / viewportHeight) * speed * 100 for the top and viewport height
\* of that moment; while no element is attached a notification leaves the
\* offset unchanged, and it is 0 initially.
C15_OffsetFormula ==
    /\ []((Notice /\ parAttached) =>
            transformY[1] * (viewportHeight * speed[2])
                = (elemTop * speed[1] * 100) * transformY[2])
    /\ []((lastOp = "init" /\ ~parAttached) => transformY = Zero)
    /\ [][(~parAttached /\ lastOp' \in {"scroll", "speed"})
            => transformY' = transformY]_vars

\* a scroll notification has replaced a non-zero offset by another one
C15_Witness ==
    /\ Notice
    /\ parAttached
    /\ lastOp = "scroll"
    /\ speed = <<0 - 1, 5>>
    /\ elemTop = 0 - 300
    /\ viewportHeight = 600
    /\ transformY[1] * 1 = 10 * transformY[2]

\* C16: at most one scroll listener is registered at any time, it is the one
\* of the current speed, none is registered after teardown, and after
\* teardown a scroll notification does not change the offset.
C16_ListenerTeardown ==
    /\ [](Len(scrollListeners) <= 1)
    /\ [](parMounted => /\ Len(scrollListeners) = 1
                        /\ scrollListeners[1].speed = speed)
    /\ [](~parMounted => scrollListeners = <<>>)
    /\ [][~parMounted => transformY' = transformY]_vars

\* after a change of speed and the teardown the page has scrolled and the
\* offset is not the one of the new position
C16_Witness ==
    /\ ~parMounted
    /\ parAttached
    /\ lastOp = "scroll"
    /\ transformY[1] * (viewportHeight * speed[2])
            # (elemTop * speed[1] * 100) * transformY[2]

-----------------------------------------------------------------------------
(* Navigation properties *)

\* C17: after every navigation action the active page is the page that was
\* passed to navigateTo and the window is scrolled to the top.
C17_NavigationAction ==
    (lastOp = "navigate") => (currentPage = lastNav /\ scrollY = 0)

\* a navigation to home while the home view was showing: the carousel has
\* kept the advance it had made
C17_Witness ==
    /\ lastOp = "navigate"
    /\ lastNav = "home"
    /\ currentPage = "home"
    /\ autoCount = 1
    /\ scrollY = 0

\* C18: driven by the buttons of the site, the active page is always one of
\* home, about, services, projects, contact.
C18_PageDomain ==
    currentPage \in {"home", "about", "services", "projects", "contact"}

\* a Footer or HomePage button has led to the services page with the menu
\* left open
C18_Witness ==
    /\ lastOp = "navigate"
    /\ currentPage = "services"
    /\ isMenuOpen

\* C19: an identifier that is not a page is stored as it was passed, and
\* while it is the active page the home view is the one rendered.
C19_UnknownFallback ==
    (currentPage \notin Pages) =>
        /\ currentPage = lastNav
        /\ homeMounted
        /\ parMounted
        /\ ~contactMounted

\* the carousel of the home view runs under an unknown identifier reached
\* from another page
C19_Witness ==
    /\ currentPage = "careers"
    /\ lastOp = "auto"
    /\ homeMounted
    /\ autoCount = 1
    /\ lastActionAt = now
    /\ now > IntervalMs

\* C20: the active page changes only in a navigation action: carousel ticks
\* and clicks, scroll notifications, observations, renders, menu toggles,
\* form events and clock steps leave it unchanged.
C20_PageFrame ==
    /\ [][currentPage' # currentPage => lastOp' = "navigate"]_vars
    /\ [][lastOp' \in {"auto", "next", "prev", "scroll", "observe", "render",
                        "menu", "change", "succeeded", "clear", "tick"}
            => currentPage' = currentPage]_vars

\* on the contact page a message was sent and its success text cleared
C20_Witness ==
    /\ currentPage = "contact"
    /\ succeeded
    /\ lastOp = "clear"
    /\ successmessage = ""

-----------------------------------------------------------------------------
(* Contact form properties *)

\* C21: every submit sends exactly one POST and none is sent again after a
\* failure; every request ends once, and while the form is on screen the
\* status after it is the message of its outcome: one for a success
\* response, one for a response that is not a success, one for a thrown
\* error, the three pairwise different.
C21_FormOutcomes ==
    /\ [](posts = submits)
    /\ [][lastOp' = "outcome" => inFlight' = inFlight - 1]_vars
    /\ []((lastOp = "outcome" /\ fetchMounted) =>
            /\ lastOutcome = "ok" => status = SuccessStatus
            /\ lastOutcome = "rejected" => status = FailedStatus
            /\ lastOutcome = "threw" => status = ErrorStatus)
    /\ [](Cardinality({SuccessStatus, FailedStatus, ErrorStatus}) = 3)

\* of two overlapping submits the first was rejected and then the second
\* threw
C21_Witness ==
    /\ fetchMounted
    /\ lastOp = "outcome"
    /\ lastOutcome = "threw"
    /\ status = ErrorStatus
    /\ submits = 2
    /\ posts = 2
    /\ inFlight = 0

\* C22: in the Formspree form, from a success at time t until 7000 ms after t
\* the success message is on screen: state.succeeded is true and
\* successmessage holds the text.
C22_ShownUntilClear ==
    (contactMounted /\ succeeded /\ now < succeededAt + ClearAfterMs) =>
        successmessage = Sent

-----------------------------------------------------------------------------
(* Frame animator properties *)

\* value == targetValue, exactly
EqualsTarget == value * endValue[2] = endValue[1]

IntegerTarget == endValue[2] = 1

\* a callback has just run in a triggered run
FrameRan == animMounted /\ trigger /\ lastOp = "frame"

Scenario == endValue = <<350, 1>> /\ duration = 2000

C10_IdleReset ==
    (animMounted /\ ~trigger /\ runs >= 1) => (value = 0 /\ startRef = NoStart)

\* C11: no animator callback runs after teardown or while triggerFlag is
\* false: every callback still pending then, re-requested ones included, has
\* been cancelled.
C11_Cancellation ==
    [][(~animMounted \/ ~trigger) => lastOp' # "frame"]_vars

\* C12: while triggerFlag stays true the reported values are natural numbers,
\* the value is 0 at the moment triggerFlag becomes true, and no callback
\* lowers the value.
C12_Monotone ==
    /\ [](value \in Nat)
    /\ [][(animMounted /\ ~trigger /\ trigger') => value' = 0]_vars
    /\ [][(animMounted /\ trigger /\ animMounted' /\ trigger')
            => value' >= value]_vars

\* C24: in a triggered run towards a positive whole target, once the value
\* equals the target no callback is pending.
C24_Complete ==
    (animMounted /\ trigger /\ IntegerTarget /\ endValue[1] > 0
        /\ EqualsTarget) =>
        (~firstFrame /\ PendingChains = 0)

\* C25: while the trigger stays true, a callback that finds the start
\* timestamp latched leaves it as it is.
C25_StartLatch ==
    [][(animMounted /\ trigger /\ trigger' /\ startRef # NoStart
            /\ lastOp' = "frame") => startRef' = startRef]_vars

\* C28: at most one callback is pending for an animator: the frame its live
\* effect requested or one frame animate requested for itself.
C28_SinglePending ==
    (IF firstFrame THEN 1 ELSE 0) + PendingChains <= 1

\* C29: after every callback the value is a whole number between 0 and the
\* current targetValue, also when endValue or duration changed during the
\* run.
C29_ValueRange ==
    (animMounted /\ lastOp = "frame") =>
        (value \in Nat /\ value * endValue[2] <= endValue[1])

====
